---- MODULE Spec2Model ----
(***************************************************************************)
(* csql: composable SQL fragments.  A model of the fragment algebra         *)
(* (Fragment.from, prepare, map, the sql template tag and its helpers) and  *)
(* of the query executor returned by sql`...`.query(conn).                  *)
(*                                                                          *)
(* Representation.                                                          *)
(*  - A query text is a sequence of tokens.  Ch(w) is a piece of text that  *)
(*    came from the template, an identifier or a literal; Ph(n) is the      *)
(*    marker `$n` written by prepare of a value or argument fragment.       *)
(*    String concatenation and join("") are \o.                             *)
(*  - A Value is a string: "1", "2", "3", "null", "obj", "arr"; Undefined   *)
(*    is JavaScript's undefined.                                            *)
(*  - An argument object is a function from Keys to Value or Undefined (a   *)
(*    key that maps to Undefined is absent).                                *)
(*  - An accessor is [fn, arg, via]: fn = "key" reads args[arg], fn =       *)
(*    "const" returns arg, fn = "deep" reads a property of args[arg] and    *)
(*    throws when args[arg] is undefined; via is the list of mappers that   *)
(*    map() has put in front of it, the first one applied first.            *)
(*  - A mapper is a sequence of renamings applied left to right; a renaming *)
(*    r stands for  args => ({k: args[r[k]], ...}).                         *)
(***************************************************************************)
EXTENDS Integers, Sequences, FiniteSets, TLC

VARIABLES
    builders,   \* the `fragments` list closed over by each build method made by sql
    helper,     \* the outcome of the last call of the helper a(...)
    queries,    \* the bound queries made by .query(conn): name, query, accessors, validate
    calls,      \* the invocations of bound queries (execute), with their progress
    connLog,    \* the configs handed to conn.query, in call order
    uuids,      \* how many names uuid.v4() has handed out
    template,   \* the strings and expressions of the last call of sql
    built       \* the sequences returned by build(), each with the fragments it was built from

vars == <<builders, helper, queries, calls, connLog, uuids, template, built>>

(***************************************************************************)
(* Values, argument objects, mappers, accessors                             *)
(***************************************************************************)
Undefined == "undefined"

Keys == {"id", "userId"}

NoKey == "-"

Get(obj, k) == IF k \in DOMAIN obj THEN obj[k] ELSE Undefined

EmptyObject == [k \in Keys |-> Undefined]

Rename(r, obj) == [k \in Keys |-> IF r[k] = NoKey THEN Undefined ELSE Get(obj, r[k])]

RECURSIVE ApplyMapper(_, _)
ApplyMapper(mapper, obj) ==
    IF mapper = <<>> THEN obj
    ELSE ApplyMapper(Tail(mapper), Rename(Head(mapper), obj))

\* x => h(g(x))
Compose(h, g) == g \o h

RECURSIVE ApplyVia(_, _)
ApplyVia(via, obj) ==
    IF via = <<>> THEN obj
    ELSE ApplyVia(Tail(via), ApplyMapper(Head(via), obj))

KeyAccessor(name) == [fn |-> "key", arg |-> name, via |-> <<>>]

ConstAccessor(value) == [fn |-> "const", arg |-> value, via |-> <<>>]

\* args => args[name].toString(): a function that reads a property of args[name]
DeepAccessor(name) == [fn |-> "deep", arg |-> name, via |-> <<>>]

\* a values argument no property can be read from (undefined, null)
NoObject == <<>>

\* accessor(values)
Apply(accessor, values) ==
    LET x == ApplyVia(accessor.via, values)
    IN  IF accessor.fn = "const" THEN accessor.arg ELSE Get(x, accessor.arg)

\* accessor(values) throws: a property is read from undefined
ApplyThrows(accessor, values) ==
    /\ accessor.fn # "const"
    /\ \/ DOMAIN values = {}
       \/ /\ accessor.fn = "deep"
          /\ Get(ApplyVia(accessor.via, values), accessor.arg) = Undefined

(***************************************************************************)
(* Query text                                                               *)
(***************************************************************************)
Ch(w) == [ph |-> FALSE, w |-> w, n |-> 0]

Ph(n) == [ph |-> TRUE, w |-> "$", n |-> n]

Numerals == {"1", "2", "3"}

SimpleNames == {"t"}

formatString(text) == text

formatLiteral(value) ==
    IF value = "null" THEN <<Ch("NULL")>>
    ELSE IF value \in Numerals THEN <<Ch(value)>>
    ELSE <<Ch("'"), Ch(value), Ch("'")>>

formatIdent(name) ==
    IF name \in SimpleNames THEN <<Ch(name)>>
    ELSE <<Ch("\""), Ch(name), Ch("\"")>>

(***************************************************************************)
(* Fragments                                                                *)
(***************************************************************************)
StringFragment(text) == [kind |-> "string", text |-> text]

ArgumentFragment(accessor) == [kind |-> "argument", accessor |-> accessor]

QueryFragment(fragments) == [kind |-> "query", fragments |-> fragments]

LiteralFragment(value) == [kind |-> "literal", value |-> value]

IdentifierFragment(name) == [kind |-> "identifier", name |-> name]

ValueFragment(value) == [kind |-> "value", value |-> value]

\* ArgumentFragment.map applying the mapper after the mappers already in place
ArgumentMapInnermost(F, mapper) ==
    ArgumentFragment([F.accessor EXCEPT !.via = @ \o <<mapper>>])

\* ArgumentFragment.map:  new ArgumentFragment(values => this.accessor(mapper(values)))
ArgumentMap(F, mapper) ==
    ArgumentFragment([F.accessor EXCEPT !.via = <<mapper>> \o @])

RECURSIVE map(_, _)
\* map with ValueFragment.map copied from LiteralFragment.map
mapValueAsLiteral(F, mapper) ==
    CASE F.kind = "string" -> StringFragment(F.text)
      [] F.kind = "argument" -> ArgumentMap(F, mapper)
      [] F.kind = "query" ->
            QueryFragment([j \in 1..Len(F.fragments) |-> map(F.fragments[j], mapper)])
      [] F.kind = "literal" -> LiteralFragment(F.value)
      [] F.kind = "identifier" -> IdentifierFragment(F.name)
      [] F.kind = "value" -> LiteralFragment(F.value)

\* fragment.map(mapper), by the class of the fragment
map(F, mapper) ==
    CASE F.kind = "string" -> StringFragment(F.text)
      [] F.kind = "argument" -> ArgumentMap(F, mapper)
      [] F.kind = "query" ->
            QueryFragment([j \in 1..Len(F.fragments) |-> map(F.fragments[j], mapper)])
      [] F.kind = "literal" -> LiteralFragment(F.value)
      [] F.kind = "identifier" -> IdentifierFragment(F.name)
      [] F.kind = "value" -> ValueFragment(F.value)

RECURSIVE prepare(_, _)
RECURSIVE staticPrepareLoop(_, _, _, _, _)

\* the forEach of staticPrepare, from child j on, with the two lists built so far
staticPrepareLoop(fragments, argOffset, j, queryStrings, accessors) ==
    IF j > Len(fragments) THEN <<queryStrings, accessors>>
    ELSE LET r == prepare(fragments[j], argOffset + Len(accessors))
         IN  staticPrepareLoop(fragments, argOffset, j + 1,
                               queryStrings \o r[1], accessors \o r[2])

RECURSIVE SameOffsetLoop(_, _, _, _, _)
SameOffsetLoop(fragments, argOffset, j, queryStrings, accessors) ==
    IF j > Len(fragments) THEN <<queryStrings, accessors>>
    ELSE LET r == prepare(fragments[j], argOffset)
         IN  SameOffsetLoop(fragments, argOffset, j + 1,
                            queryStrings \o r[1], accessors \o r[2])

\* staticPrepare handing every child the starting offset itself
staticPrepareSameOffset(fragments, argOffset) ==
    SameOffsetLoop(fragments, argOffset, 1, <<>>, <<>>)

staticPrepare(fragments, argOffset) ==
    staticPrepareLoop(fragments, argOffset, 1, <<>>, <<>>)

\* QueryFragment.prepare numbering from a stored offset instead of its argument
QueryPrepareStoredOffset(F, argOffset) == staticPrepare(F.fragments, 1)

\* QueryFragment.prepare
QueryPrepare(F, argOffset) == staticPrepare(F.fragments, argOffset)

ArgumentPrepare(F, argOffset) == <<<<Ph(argOffset)>>, <<F.accessor>>>>

ValuePrepare(F, argOffset) == <<<<Ph(argOffset)>>, <<ConstAccessor(F.value)>>>>

prepare(F, argOffset) ==
    CASE F.kind = "string" -> <<formatString(F.text), <<>>>>
      [] F.kind = "argument" -> ArgumentPrepare(F, argOffset)
      [] F.kind = "query" -> QueryPrepare(F, argOffset)
      [] F.kind = "literal" -> <<formatLiteral(F.value), <<>>>>
      [] F.kind = "identifier" -> <<formatIdent(F.name), <<>>>>
      [] F.kind = "value" -> ValuePrepare(F, argOffset)

(***************************************************************************)
(* Sources of an embedded expression, by their run-time type                *)
(***************************************************************************)
FragmentSource(F) == [type |-> "fragment", frag |-> F]

BuildSource(fragments) == [type |-> "build", fragments |-> fragments]

FunctionSource(accessor) == [type |-> "function", fn |-> accessor]

ValueSource(value) == [type |-> "value", value |-> value]

\* the optional mapper of build(mapper?): absent in build()
NoMapper == [given |-> FALSE, fn |-> <<>>]

Mapper(m) == [given |-> TRUE, fn |-> m]

\* build(mapper?) over fragments.slice(1): the sequence loses its first fragment
buildFromSecond(fragments, mapper) ==
    IF mapper.given
    THEN QueryFragment([j \in 1..Len(fragments) |-> map(fragments[j], mapper.fn)])
    ELSE QueryFragment(Tail(fragments))

\* build(mapper?) of the builder whose closure is `fragments`
build(fragments, mapper) ==
    IF mapper.given
    THEN QueryFragment([j \in 1..Len(fragments) |-> map(fragments[j], mapper.fn)])
    ELSE QueryFragment(fragments)

\* Fragment.from testing for a function before it tests for a build method's
\* mark, so that a build method is taken for an accessor
fromBuildAsAccessor(source) ==
    IF source.type = "fragment" THEN source.frag
    ELSE IF source.type \in {"build", "function"}
         THEN ArgumentFragment(IF source.type = "build" THEN KeyAccessor("build")
                               ELSE source.fn)
    ELSE ValueFragment(source.value)

\* Fragment.from: instanceof Fragment, then typeof "function" (a build method
\* carries isBuildMethodField), then any other value
from(source) ==
    IF source.type = "fragment" THEN source.frag
    ELSE IF source.type \in {"build", "function"}
         THEN IF source.type = "build" THEN build(source.fragments, NoMapper)
              ELSE ArgumentFragment(source.fn)
    ELSE ValueFragment(source.value)

\* sql leaving out a trailing segment that is the empty string
sqlFragmentsNoEmptyTail(strings, args) ==
    LET n == Len(args)
        all == [j \in 1..(2 * n + 1) |->
                  IF j % 2 = 1 THEN StringFragment(strings[(j + 1) \div 2])
                  ELSE from(args[j \div 2])]
    IN  IF strings[n + 1] = <<>> THEN SubSeq(all, 1, 2 * n) ELSE all

\* the `fragments` list of sql(strings, ...args); Len(strings) = Len(args) + 1
sqlFragments(strings, args) ==
    [j \in 1..(2 * Len(args) + 1) |->
        IF j % 2 = 1 THEN StringFragment(strings[(j + 1) \div 2])
        ELSE from(args[j \div 2])]

(***************************************************************************)
(* The helper a(name).  Its input is a string, an array of pieces (the      *)
(* strings array of a`...`, with one piece more than it has interpolations, *)
(* or a plain array), or anything else (a number, null, an object).         *)
(***************************************************************************)
StringInput(str) == [type |-> "string", pieces |-> <<str>>]

TemplateInput(pieces) == [type |-> "template", pieces |-> pieces]

ArrayInput(pieces) == [type |-> "array", pieces |-> pieces]

OtherInput == [type |-> "other", pieces |-> <<>>]

NoFragment == [kind |-> "none"]

Returned(F) == [status |-> "ok", error |-> "", frag |-> F]

Thrown(error) == [status |-> "thrown", error |-> error, frag |-> NoFragment]

a(name) ==
    IF name.type = "string" THEN Returned(ArgumentFragment(KeyAccessor(name.pieces[1])))
    ELSE IF name.type \in {"template", "array"} /\ Len(name.pieces) = 1
    THEN Returned(ArgumentFragment(KeyAccessor(name.pieces[1])))
    ELSE Thrown("TypeError")

(***************************************************************************)
(* The edition src/index.ts: no ValueFragment, and a staticPrepare whose    *)
(* accessors.concat(...) leaves `accessors` as it was                       *)
(***************************************************************************)
fromIndex(source) ==
    IF source.type = "fragment" THEN source.frag
    ELSE IF source.type \in {"build", "function"}
         THEN IF source.type = "build" THEN QueryFragment(source.fragments)
              ELSE ArgumentFragment(source.fn)
    ELSE ArgumentFragment(ConstAccessor(source.value))

sqlFragmentsIndex(strings, args) ==
    [j \in 1..(2 * Len(args) + 1) |->
        IF j % 2 = 1 THEN StringFragment(strings[(j + 1) \div 2])
        ELSE fromIndex(args[j \div 2])]

RECURSIVE prepareIndex(_, _)
RECURSIVE staticPrepareIndexLoop(_, _, _, _, _)

staticPrepareIndexLoop(fragments, argOffset, j, queryStrings, accessors) ==
    IF j > Len(fragments) THEN <<queryStrings, accessors>>
    ELSE LET r == prepareIndex(fragments[j], argOffset + Len(accessors))
         IN  staticPrepareIndexLoop(fragments, argOffset, j + 1,
                                    queryStrings \o r[1], accessors)

staticPrepareIndex(fragments, argOffset) ==
    staticPrepareIndexLoop(fragments, argOffset, 1, <<>>, <<>>)

prepareIndex(F, argOffset) ==
    CASE F.kind = "string" -> <<formatString(F.text), <<>>>>
      [] F.kind = "argument" -> <<<<Ph(argOffset)>>, <<F.accessor>>>>
      [] F.kind = "query" -> staticPrepareIndex(F.fragments, argOffset)
      [] F.kind = "literal" -> <<formatLiteral(F.value), <<>>>>
      [] F.kind = "identifier" -> <<formatIdent(F.name), <<>>>>

(***************************************************************************)
(* The executor: sql`...`.query(conn, options) and the execute it returns   *)
(***************************************************************************)
\* options: no validate, or a validate that accepts the rows of `accepted`
NoOptions == [validate |-> FALSE, accepted |-> {}]

Validate(accepted) == [validate |-> TRUE, accepted |-> accepted]

\* the argument of execute(values): left out, or an object
NoArgument == [given |-> FALSE, obj |-> EmptyObject]

Argument(obj) == [given |-> TRUE, obj |-> obj]

\* execute(values) without the default of its parameter
valuesOfNoDefault(argument) == IF argument.given THEN argument.obj ELSE NoObject

\* values: A = {} as any
valuesOf(argument) == IF argument.given THEN argument.obj ELSE EmptyObject

\* accessors.map(accessor => accessor(values)) evaluating every accessor against {}
mappedValuesOfNothing(accessors, values) ==
    [k \in 1..Len(accessors) |-> Apply(accessors[k], EmptyObject)]

\* accessors.map(accessor => accessor(values))
mappedValues(accessors, values) ==
    [k \in 1..Len(accessors) |-> Apply(accessors[k], values)]

\* the accessors that throw for `values`
Throwers(accessors, values) ==
    {k \in 1..Len(accessors) : ApplyThrows(accessors[k], values)}

\* the accessors that accessors.map calls, in the order it calls them: each once,
\* by rising index, up to the first that throws
evaluated(accessors, values) ==
    LET n == IF Throwers(accessors, values) = {} THEN Len(accessors)
             ELSE CHOOSE k \in Throwers(accessors, values) :
                      \A m \in Throwers(accessors, values) : k <= m
    IN  [k \in 1..n |-> k]

\* the map with every accessor called in a try block, undefined standing for the
\* value of one that throws
evaluateSwallows(accessors, values) ==
    [thrown |-> FALSE,
     evaluated |-> [k \in 1..Len(accessors) |-> k],
     values |-> [k \in 1..Len(accessors) |->
                    IF ApplyThrows(accessors[k], values) THEN Undefined
                    ELSE Apply(accessors[k], values)]]

\* const mappedValues = accessors.map(...): the bound values, or the throw of an
\* accessor, which ends execute before conn.query
evaluate(accessors, values) ==
    [thrown |-> Throwers(accessors, values) # {},
     evaluated |-> evaluated(accessors, values),
     values |-> IF Throwers(accessors, values) = {}
                THEN mappedValues(accessors, values) ELSE <<>>]

\* a config whose values are those of the first invocation, kept in the closure
configSharedValues(bound, values, made) ==
    [name |-> bound.name, text |-> bound.query,
     values |-> IF made = 0 THEN values ELSE connLog[1].values]

\* a config whose name is made anew for every invocation
configFreshName(bound, values, made) ==
    [name |-> bound.name + made + 1, text |-> bound.query, values |-> values]

\* the config handed to conn.query; `made` is the number of calls made before
config(bound, values, made) ==
    [name |-> bound.name, text |-> bound.query, values |-> values]

Rejected(rows, options) == {k \in 1..Len(rows) : rows[k] \notin options.accepted}

Min(S) == CHOOSE k \in S : \A m \in S : k <= m

RowsReturned(rows) == [pc |-> "returned", rows |-> rows, error |-> "", index |-> -1]

Failed(error, index) == [pc |-> "failed", rows |-> <<>>, error |-> error, index |-> index]

\* the number of rows options.validate is called on
rowsChecked(rows, options) ==
    IF ~options.validate THEN 0
    ELSE IF Rejected(rows, options) = {} THEN Len(rows)
    ELSE Min(Rejected(rows, options))

\* the rest of execute returning the rows that validate accepts
afterQueryKeepAccepted(rows, options) ==
    IF options.validate
    THEN RowsReturned(SelectSeq(rows, LAMBDA row : row \in options.accepted))
    ELSE RowsReturned(rows)

\* the rest of execute, once conn.query has resolved with `rows`: rows.map throws
\* at the first row that validate rejects, with that row's index, counted from 0
afterQuery(rows, options) ==
    IF options.validate
    THEN IF Rejected(rows, options) # {}
         THEN Failed("TypeError", Min(Rejected(rows, options)) - 1)
         ELSE RowsReturned(rows)
    ELSE RowsReturned(rows)

(***************************************************************************)
(* Bounds and input domains                                                 *)
(***************************************************************************)
MaxBuilders == 3

MaxExprs == 4

\* how many expressions one template embeds
ArgCounts == {0, 1, 2}

Swap == [k \in Keys |-> IF k = "id" THEN "userId" ELSE "id"]

OnlyId == [k \in Keys |-> IF k = "id" THEN "userId" ELSE NoKey]

Word(j) == <<"s1", "s2", "s3", "s4">>[j]

\* the literal segments of a template with n embedded expressions
Templates(n) == {[j \in 1..(n + 1) |-> <<Ch(Word(j))>>]}

RECURSIVE SumLen(_)
SumLen(s) == IF s = <<>> THEN 0 ELSE Len(Head(s)) + SumLen(Tail(s))

\* the number of embedded expressions of the templates built so far
Exprs == (SumLen(builders) - Len(builders)) \div 2

HasBuilder == Len(builders) > 0

\* the fragments of the build method made last
Newest == builders[Len(builders)]

i(name) == IdentifierFragment(name)

l(value) == LiteralFragment(value)

\* the builders made so far, as embedded expressions
BuilderSources == {BuildSource(builders[b]) : b \in 1..Len(builders)}

\* their sequences remapped by build(mapper)
MappedSources(renamings) ==
    {FragmentSource(build(builders[b], Mapper(<<r>>))) :
        b \in 1..Len(builders), r \in renamings}

\* one leaf of each kind
NestLeaves ==
    {ValueSource("1"), FunctionSource(KeyAccessor("id")),
     FragmentSource(i("t")), FragmentSource(l("x"))}

NestSources == NestLeaves \cup BuilderSources

\* the sql tag's own cases: plain values (a number, null, an object, an array),
\* a function, a fragment made by a helper
SqlLeaves ==
    {ValueSource(v) : v \in {"1", "null", "obj", "arr"}}
    \cup {FunctionSource(KeyAccessor("id")), FragmentSource(l("x"))}

SqlSources == SqlLeaves \cup BuilderSources

Segments == {<<>>, <<Ch("Q")>>}

MaxSqlBuilders == 2

MaxSqlExprs == 2

MaxPieces == 3

Pieces == {"id", "userId", ""}

Arrays(lo) == UNION {[1..n -> Pieces] : n \in lo..MaxPieces}

\* what a(...) is called with
AInputs ==
    {StringInput(str) : str \in Pieces}
    \cup {TemplateInput(ps) : ps \in Arrays(1)}
    \cup {ArrayInput(ps) : ps \in Arrays(0)}
    \cup {OtherInput}

ReadObjects == [Keys -> {"1", "2", Undefined}]

MaxQueries == 1

MaxBuilt == 2

MaxCalls == 2

Inner == sqlFragments(<<<<Ch("INNER ")>>, <<Ch(" ")>>, <<>>>>,
                      <<ValueSource("1"), ValueSource("2")>>)

IdIs == sqlFragments(<<<<Ch("id = ")>>, <<>>>>,
                     <<FragmentSource(a(TemplateInput(<<"id">>)).frag)>>)

\* the pools of builders the executor is run over: those of the tests, and a
\* template embedding a function, a remapped sequence and a value
ExecPools ==
    { <<sqlFragments(<<<<Ch("QUERY")>>>>, <<>>)>>,
      <<sqlFragments(<<<<Ch("QUERY ")>>, <<>>>>, <<ValueSource("3")>>)>>,
      <<sqlFragments(<<<<Ch("QUERY ")>>, <<>>>>, <<FunctionSource(KeyAccessor("id"))>>)>>,
      <<Inner, sqlFragments(<<<<Ch("OUTER (")>>, <<Ch(") ")>>, <<>>>>,
                            <<BuildSource(Inner), ValueSource("3")>>)>>,
      <<Inner, sqlFragments(<<<<Ch("OUTER ")>>, <<Ch(" (")>>, <<Ch(")")>>>>,
                            <<ValueSource("3"), BuildSource(Inner)>>)>>,
      <<IdIs, sqlFragments(<<<<Ch("SET ")>>, <<Ch(" WHERE ")>>, <<>>>>,
                           <<FunctionSource(KeyAccessor("id")),
                             FragmentSource(build(IdIs, Mapper(<<OnlyId>>)))>>)>> }

ExecArguments ==
    {NoArgument, Argument([k \in Keys |-> IF k = "id" THEN "3" ELSE Undefined])}

Rows == {"r1", "r2"}

RowLists == {<<>>, <<"r1", "r2">>, <<"r2", "r1">>}

OptionsSet == {NoOptions, Validate({"r1"}), Validate(Rows)}

MapLeaves == {ValueSource("1"), FunctionSource(KeyAccessor("id"))}

MapSources == MapLeaves \cup BuilderSources \cup MappedSources({Swap})

(***************************************************************************)
(* Actions                                                                  *)
(***************************************************************************)
NoHelper == [status |-> "none", error |-> "", frag |-> NoFragment,
             input |-> OtherInput, obj |-> EmptyObject, read |-> "unread"]

NoTemplate == [strings |-> <<>>, args |-> <<>>]

Init ==
    /\ builders = <<>>
    /\ helper = NoHelper
    /\ queries = <<>>
    /\ calls = <<>>
    /\ connLog = <<>>
    /\ uuids = 0
    /\ template = NoTemplate
    /\ built = <<>>

\* sql`...`: a new build method over the fragments of the template
Sql(strings, args) ==
    /\ Len(builders) < MaxBuilders
    /\ Exprs + Len(args) <= MaxExprs
    /\ builders' = Append(builders, sqlFragments(strings, args))
    /\ template' = [strings |-> strings, args |-> args]
    /\ UNCHANGED <<helper, queries, calls, connLog, uuids, built>>

\* the numbers of expressions a new template can embed within the bounds
Room == {m \in ArgCounts : Len(builders) < MaxBuilders /\ Exprs + m <= MaxExprs}

\* templates nested in templates
Next ==
    \E n \in Room : \E strings \in Templates(n) : \E args \in [1..n -> NestSources] :
        Sql(strings, args)

Spec == Init /\ [][Next]_vars

\* one template over every kind of expression
SqlRoom == {m \in ArgCounts : Len(builders) < MaxSqlBuilders /\ Exprs + m <= MaxSqlExprs}

NextSql ==
    \E n \in SqlRoom : \E strings \in [1..(n + 1) -> Segments] :
        \E args \in [1..n -> SqlSources] :
            Sql(strings, args)

SpecSql == Init /\ [][NextSql]_vars

\* a(name), called with `name`
CallA(name) ==
    /\ helper' = a(name) @@
                  [input |-> name, obj |-> EmptyObject, read |-> "unread"]
    /\ UNCHANGED <<builders, queries, calls, connLog, uuids, template, built>>

\* the accessor of the fragment a(name) returned, applied to an argument object
ReadA(obj) ==
    /\ helper.status = "ok"
    /\ helper.read = "unread"
    /\ helper' = [helper EXCEPT !.obj = obj, !.read = Apply(helper.frag.accessor, obj)]
    /\ UNCHANGED <<builders, queries, calls, connLog, uuids, template, built>>

NextA ==
    \/ \E name \in AInputs : CallA(name)
    \/ \E obj \in ReadObjects : ReadA(obj)

SpecA == Init /\ [][NextA]_vars

\* sql`...` of src/index.ts
SqlIndex(strings, args) ==
    /\ Len(builders) < MaxBuilders
    /\ Exprs + Len(args) <= MaxExprs
    /\ builders' = Append(builders, sqlFragmentsIndex(strings, args))
    /\ template' = [strings |-> strings, args |-> args]
    /\ UNCHANGED <<helper, queries, calls, connLog, uuids, built>>

NextIndex ==
    \E n \in Room : \E strings \in Templates(n) : \E args \in [1..n -> NestSources] :
        SqlIndex(strings, args)

SpecIndex == Init /\ [][NextIndex]_vars

InitExec ==
    /\ builders \in ExecPools
    /\ helper = NoHelper
    /\ queries = <<>>
    /\ calls = <<>>
    /\ connLog = <<>>
    /\ uuids = 0
    /\ template = NoTemplate
    /\ built = <<>>

\* build.query(conn, options) of the builder made last: a name from uuid.v4(), the
\* tree linearized from 1, and the execute closure over both
Query(options) ==
    /\ Len(queries) < MaxQueries
    /\ LET r == staticPrepare(Newest, 1)
       IN  queries' = Append(queries, [name |-> uuids + 1, query |-> r[1],
                                       accessors |-> r[2], options |-> options])
    /\ uuids' = uuids + 1
    /\ UNCHANGED <<builders, helper, calls, connLog, template, built>>

\* execute(values) up to its await: the accessors are called, then conn.query(config)
\* unless one of them threw
Execute(q, argument) ==
    /\ Len(calls) < MaxCalls
    /\ LET bound == queries[q]
           e == evaluate(bound.accessors, valuesOf(argument))
           call == [q |-> q, argument |-> argument, ret |-> <<>>,
                    evaluated |-> e.evaluated, checked |-> 0]
       IN  IF e.thrown
           THEN /\ connLog' = connLog
                /\ calls' = Append(calls, Failed("accessor", -1) @@ [sent |-> 0] @@ call)
           ELSE /\ connLog' = Append(connLog, config(bound, e.values, Len(connLog)))
                /\ calls' = Append(calls, [pc |-> "awaiting", rows |-> <<>>, error |-> "",
                                           index |-> -1, sent |-> Len(connLog) + 1]
                                          @@ call)
    /\ UNCHANGED <<builders, helper, queries, uuids, template, built>>

\* conn.query of call c resolves with `rows`, and execute runs to its end
ConnResolve(c, rows) ==
    /\ calls[c].pc = "awaiting"
    /\ calls' = [calls EXCEPT ![c] =
                    afterQuery(rows, queries[calls[c].q].options) @@
                    [ret |-> rows,
                     checked |-> rowsChecked(rows, queries[calls[c].q].options)] @@
                    calls[c]]
    /\ UNCHANGED <<builders, helper, queries, connLog, uuids, template, built>>

\* conn.query of call c rejects, and execute calls it once more with the same config
\* before it gives up
ConnRejectRetry(c) ==
    /\ calls[c].pc = "awaiting"
    /\ connLog' = Append(connLog, connLog[calls[c].sent])
    /\ calls' = [calls EXCEPT ![c] = Failed("conn", -1) @@ calls[c]]
    /\ UNCHANGED <<builders, helper, queries, uuids, template, built>>

\* conn.query of call c rejects, and execute rejects with the same error
ConnReject(c) ==
    /\ calls[c].pc = "awaiting"
    /\ calls' = [calls EXCEPT ![c] = Failed("conn", -1) @@ calls[c]]
    /\ UNCHANGED <<builders, helper, queries, connLog, uuids, template, built>>

NextExec ==
    \/ \E options \in OptionsSet : Query(options)
    \/ \E q \in 1..Len(queries) : \E argument \in ExecArguments : Execute(q, argument)
    \/ \E c \in 1..Len(calls) : \E rows \in RowLists : ConnResolve(c, rows)
    \/ \E c \in 1..Len(calls) : ConnReject(c)

SpecExec == InitExec /\ [][NextExec]_vars

\* queries whose accessors read a property of a property of the argument
ThrowPools ==
    { <<sqlFragments(<<<<Ch("QUERY ")>>, <<>>>>, <<FunctionSource(DeepAccessor("id"))>>)>>,
      <<sqlFragments(<<<<Ch("QUERY ")>>, <<Ch(" ")>>, <<Ch(" ")>>, <<>>>>,
                     <<ValueSource("3"), FunctionSource(DeepAccessor("userId")),
                       FunctionSource(KeyAccessor("id"))>>)>>,
      <<sqlFragments(<<<<Ch("QUERY ")>>, <<Ch(" ")>>, <<>>>>,
                     <<FunctionSource(KeyAccessor("id")),
                       FunctionSource(DeepAccessor("id"))>>)>> }

ThrowArguments ==
    {NoArgument,
     Argument([k \in Keys |-> IF k = "id" THEN "3" ELSE Undefined]),
     Argument([k \in Keys |-> IF k = "id" THEN "3" ELSE "7"])}

ThrowRows == {<<>>, <<"r1", "r2">>}

InitThrow ==
    /\ builders \in ThrowPools
    /\ helper = NoHelper
    /\ queries = <<>>
    /\ calls = <<>>
    /\ connLog = <<>>
    /\ uuids = 0
    /\ template = NoTemplate
    /\ built = <<>>

\* bound queries invoked with arguments that make an accessor throw
NextThrow ==
    \/ \E options \in OptionsSet : Query(options)
    \/ \E q \in 1..Len(queries) : \E argument \in ThrowArguments : Execute(q, argument)
    \/ \E c \in 1..Len(calls) : \E rows \in ThrowRows : ConnResolve(c, rows)
    \/ \E c \in 1..Len(calls) : ConnReject(c)

SpecThrow == InitThrow /\ [][NextThrow]_vars

\* queries with accessors, invoked with two argument objects
OverlapPools ==
    { <<sqlFragments(<<<<Ch("QUERY ")>>, <<>>>>, <<FunctionSource(KeyAccessor("id"))>>)>>,
      <<IdIs, sqlFragments(<<<<Ch("SET ")>>, <<Ch(" WHERE ")>>, <<Ch(" ")>>, <<>>>>,
                           <<FunctionSource(KeyAccessor("id")),
                             FragmentSource(build(IdIs, Mapper(<<OnlyId>>))),
                             ValueSource("1")>>)>> }

OverlapArguments ==
    {Argument([k \in Keys |-> IF k = "id" THEN "3" ELSE "7"]),
     Argument([k \in Keys |-> IF k = "id" THEN "4" ELSE "8"])}

OverlapRows == {<<"r1">>, <<"r2", "r1">>}

InitOverlap ==
    /\ builders \in OverlapPools
    /\ helper = NoHelper
    /\ queries = <<>>
    /\ calls = <<>>
    /\ connLog = <<>>
    /\ uuids = 0
    /\ template = NoTemplate
    /\ built = <<>>

\* invocations of one bound query that overlap: execute awaits conn.query, and the
\* connection settles the calls in any order
NextOverlap ==
    \/ \E options \in {NoOptions, Validate(Rows)} : Query(options)
    \/ \E q \in 1..Len(queries) : \E argument \in OverlapArguments : Execute(q, argument)
    \/ \E c \in 1..Len(calls) : \E rows \in OverlapRows : ConnResolve(c, rows)
    \/ \E c \in 1..Len(calls) : ConnReject(c)

SpecOverlap == InitOverlap /\ [][NextOverlap]_vars

\* build() of the builder made last, called with no mapper
Finalize ==
    /\ Len(built) < MaxBuilt
    /\ built' = Append(built, [b |-> Len(builders), mapper |-> NoMapper,
                                frag |-> build(Newest, NoMapper), fragments |-> Newest])
    /\ UNCHANGED <<builders, helper, queries, calls, connLog, uuids, template>>

\* finalizing a builder between binding it and invoking the bound queries
NextBuild ==
    \/ Finalize
    \/ \E options \in {NoOptions} : Query(options)
    \/ \E q \in 1..Len(queries) : Execute(q, NoArgument)
    \/ \E c \in 1..Len(calls) : ConnResolve(c, <<"r1">>)

SpecBuild == InitExec /\ [][NextBuild]_vars

\* build(mapper) of the builder made last: every fragment's map(mapper), in a new
\* sequence
Remap(m) ==
    /\ HasBuilder
    /\ Len(built) < MaxBuilt
    /\ built' = Append(built, [b |-> Len(builders), mapper |-> Mapper(<<m>>),
                                frag |-> build(Newest, Mapper(<<m>>)),
                                fragments |-> Newest])
    /\ UNCHANGED <<builders, helper, queries, calls, connLog, uuids, template>>

RemapSources == NestLeaves \cup BuilderSources

\* templates over every kind of leaf, remapped between their construction
NextRemap ==
    \/ \E n \in SqlRoom : \E strings \in Templates(n) :
          \E args \in [1..n -> RemapSources] : Sql(strings, args)
    \/ \E m \in {Swap, OnlyId} : Remap(m)

SpecRemap == Init /\ [][NextRemap]_vars

\* templates that embed remapped sequences
NextMap ==
    \E n \in Room : \E strings \in Templates(n) : \E args \in [1..n -> MapSources] :
        Sql(strings, args)

SpecMap == Init /\ [][NextMap]_vars

(***************************************************************************)
(* Reading a prepared text and a fragment tree                              *)
(***************************************************************************)
MaxOffset == 2

Offsets == 0..MaxOffset

IsPh(t) == t.ph

\* the placeholder numbers of a text, left to right
Placeholders(text) ==
    LET marks == SelectSeq(text, IsPh)
    IN  [k \in 1..Len(marks) |-> marks[k].n]

\* a text with every placeholder number raised by d
ShiftText(text, d) ==
    [k \in 1..Len(text) |-> IF text[k].ph THEN Ph(text[k].n + d) ELSE text[k]]

RECURSIVE Emitters(_)
RECURSIVE EmittersOfList(_)

\* the value and argument nodes of a tree, depth first, left to right
Emitters(F) ==
    IF F.kind \in {"value", "argument"} THEN <<F>>
    ELSE IF F.kind = "query" THEN EmittersOfList(F.fragments)
    ELSE <<>>

EmittersOfList(fs) ==
    IF fs = <<>> THEN <<>> ELSE Emitters(Head(fs)) \o EmittersOfList(Tail(fs))

AccessorOf(F) == IF F.kind = "argument" THEN F.accessor ELSE ConstAccessor(F.value)

RECURSIVE Depth(_)
Depth(F) ==
    IF F.kind # "query" THEN 0
    ELSE 1 + (LET ds == {Depth(F.fragments[j]) : j \in 1..Len(F.fragments)}
              IN  CHOOSE d \in ds : \A e \in ds : e <= d)

NewestTrees == {QueryFragment(Newest)} \cup {Newest[j] : j \in 1..Len(Newest)}

(***************************************************************************)
(* C1: for every fragment tree F and starting offset o, prepare(F, o)       *)
(* returns a text and an accessor list such that the number of accessors    *)
(* equals the number of placeholder markers of the text, the markers read   *)
(* left to right are numbered o, o+1, ..., with no gap or repeat, and the   *)
(* k-th accessor is the accessor of the k-th node that emits a placeholder. *)
(***************************************************************************)
C1_PrepareNumbersContiguously ==
    HasBuilder =>
        \A F \in NewestTrees : \A o \in Offsets :
            LET r == prepare(F, o)
                marks == Placeholders(r[1])
                nodes == Emitters(F)
            IN  /\ Len(r[2]) = Len(marks)
                /\ Len(r[2]) = Len(nodes)
                /\ \A k \in 1..Len(marks) :
                      /\ marks[k] = o + k - 1
                      /\ r[2][k] = AccessorOf(nodes[k])

\* a sequence nested three deep, with a value and an argument node among its
\* placeholders, has been built
C1_Witness ==
    /\ HasBuilder
    /\ Depth(QueryFragment(Newest)) = 3
    /\ LET nodes == Emitters(QueryFragment(Newest))
       IN  /\ Len(nodes) >= 2
           /\ \E j, k \in 1..Len(nodes) : nodes[j].kind = "value" /\ nodes[k].kind = "argument"

(***************************************************************************)
(* C2: embedding a fragment X with k placeholders in an outer list Y, at    *)
(* the point where p is the next placeholder number, renders X's            *)
(* placeholders as p, ..., p+k-1 (X's own text with its numbers moved) and  *)
(* renders what follows X in Y with every number raised by exactly k; the   *)
(* accessors are those before X, then X's, then those after X.  It holds    *)
(* for each occurrence of X, in every outer list.                           *)
(***************************************************************************)
Embedded(Y) == {j \in 1..Len(Y) : Y[j].kind = "query"}

C2_NestingRenumbers ==
    HasBuilder =>
        \A j \in Embedded(Newest) : \A o \in Offsets :
            LET Y == Newest
                X == Y[j]
                whole == staticPrepare(Y, o)
                before == staticPrepare(SubSeq(Y, 1, j - 1), o)
                p == o + Len(before[2])
                alone == prepare(X, 1)
                k == Len(alone[2])
                after == staticPrepare(SubSeq(Y, j + 1, Len(Y)), p)
                inner == ShiftText(alone[1], p - 1)
            IN  /\ Placeholders(inner) = [m \in 1..k |-> p + m - 1]
                /\ whole[1] = before[1] \o inner \o ShiftText(after[1], k)
                /\ whole[2] = before[2] \o alone[2] \o after[2]

\* the same builder, with at least one placeholder, is embedded twice in one
\* template (inner, inner) or after a value (value, inner)
C2_Witness ==
    /\ HasBuilder
    /\ Len(Newest) = 5
    /\ Newest[4].kind = "query"
    /\ Len(prepare(Newest[4], 1)[2]) = 2
    /\ Newest[2] \in {Newest[4], ValueFragment("1")}
    /\ Placeholders(staticPrepare(Newest, 1)[1]) \in {<<1, 2, 3>>, <<1, 2, 3, 4>>}

(***************************************************************************)
(* C3: every invocation of a bound query with argument value v calls        *)
(* conn.query with a text whose placeholders are numbered $1..$n and a      *)
(* values list of length n whose position k holds what the node rendering   *)
(* placeholder $(k+1) yields for v: the fixed value of an embedded plain    *)
(* value, accessor(v) of an embedded accessor.                              *)
(***************************************************************************)
Made == 1..Len(calls)

C3_ValuesMatchPlaceholders ==
    \A c \in Made :
        LET cfg == connLog[c]
            nodes == Emitters(QueryFragment(Newest))
            n == Len(nodes)
        IN  /\ Placeholders(cfg.text) = [k \in 1..n |-> k]
            /\ Len(cfg.values) = n
            /\ \A k \in 1..n :
                  IF nodes[k].kind = "value" THEN cfg.values[k] = nodes[k].value
                  ELSE calls[c].argument.given =>
                          cfg.values[k] = Apply(nodes[k].accessor, calls[c].argument.obj)

\* sql`QUERY ${args => args.id}` invoked with {id: 3}: text QUERY $1, values [3]
C3_Witness ==
    /\ Len(calls) > 0
    /\ calls[1].argument.given
    /\ calls[1].argument.obj["id"] = "3"
    /\ Emitters(QueryFragment(Newest)) = <<ArgumentFragment(KeyAccessor("id"))>>
    /\ connLog[1].text = <<Ch("QUERY "), Ph(1)>>
    /\ connLog[1].values = <<"3">>

(***************************************************************************)
(* C4: for one bound query, every invocation, in any number and order,      *)
(* hands conn.query the same statement name and the same text: the name is  *)
(* generated and the tree linearized once, at bind time, and no invocation  *)
(* changes either.                                                          *)
(***************************************************************************)
C4_SameNameAndText ==
    /\ uuids = Len(queries)
    /\ \A c \in Made :
          /\ connLog[c].name = queries[calls[c].q].name
          /\ connLog[c].text = queries[calls[c].q].query
          /\ connLog[c].text = staticPrepare(Newest, 1)[1]
    /\ \A c, d \in Made :
          calls[c].q = calls[d].q =>
              connLog[c].name = connLog[d].name /\ connLog[c].text = connLog[d].text

\* one bound query invoked twice, with different arguments
C4_Witness ==
    /\ Len(calls) >= 2
    /\ calls[1].q = calls[2].q
    /\ calls[1].argument # calls[2].argument
    /\ Len(connLog) >= 2
    /\ Len(connLog[1].values) > 0

(***************************************************************************)
(* C5: with a validate predicate, an invocation whose returned rows hold a  *)
(* row the predicate rejects fails with an error naming the index of a      *)
(* rejected row and returns no rows at all; when every row is accepted, or  *)
(* no predicate is given, the rows are returned unchanged, in order.        *)
(***************************************************************************)
C5_RowValidation ==
    \A c \in Made :
        (calls[c].pc # "awaiting" /\ calls[c].error # "conn") =>
            LET options == queries[calls[c].q].options
                ret == calls[c].ret
                bad == {k \in 1..Len(ret) : ret[k] \notin options.accepted}
            IN  IF options.validate /\ bad # {}
                THEN /\ calls[c].pc = "failed"
                     /\ calls[c].error = "TypeError"
                     /\ calls[c].index + 1 \in bad
                     /\ calls[c].rows = <<>>
                ELSE /\ calls[c].pc = "returned"
                     /\ calls[c].rows = ret

\* validate rejects row 1 of a result of two rows: the call fails naming row 1
C5_Witness ==
    /\ Len(calls) > 0
    /\ queries[calls[1].q].options = Validate({"r1"})
    /\ calls[1].ret = <<"r1", "r2">>
    /\ calls[1].pc = "failed"
    /\ calls[1].index = 1
    /\ calls[1].rows = <<>>

(***************************************************************************)
(* C6: for mappers h and g, F.map(h).map(g) and F.map(x => h(g(x)))         *)
(* linearize to the same text, and for every argument value their accessor  *)
(* lists give the same bound values position by position.                   *)
(***************************************************************************)
Identity == [k \in Keys |-> k]

Renamings == {Swap, OnlyId, Identity}

ArgObjects == {[k \in Keys |-> IF k \in present THEN Word(IF k = "id" THEN 1 ELSE 2)
                                ELSE Undefined] : present \in SUBSET Keys}

SameValues(accs1, accs2, obj) ==
    /\ Len(accs1) = Len(accs2)
    /\ \A k \in 1..Len(accs1) : Apply(accs1[k], obj) = Apply(accs2[k], obj)

C6_RemapComposition ==
    HasBuilder =>
        \A h \in Renamings : \A g \in Renamings :
            LET F == QueryFragment(Newest)
                twice == prepare(map(map(F, <<h>>), <<g>>), 1)
                once == prepare(map(F, Compose(<<h>>, <<g>>)), 1)
            IN  /\ twice[1] = once[1]
                /\ \A obj \in ArgObjects : SameValues(twice[2], once[2], obj)

\* a template embeds a remapped sequence that itself embeds a remapped argument:
\* an accessor behind two mappers
C6_Witness ==
    /\ HasBuilder
    /\ \E k \in 1..Len(Emitters(QueryFragment(Newest))) :
          LET node == Emitters(QueryFragment(Newest))[k]
          IN  node.kind = "argument" /\ Len(node.accessor.via) = 2

(***************************************************************************)
(* C7: a template with n embedded expressions and n+1 literal segments      *)
(* gives a fragment list of exactly 2n+1 children: child 2i is the text     *)
(* fragment of segment i, child 2i+1 the fragment wrapping expression i,    *)
(* in source order, and the last child is the text fragment of segment n    *)
(* even when that segment is the empty string.                              *)
(***************************************************************************)
\* F is what embedding `source` is to put in the list
Wraps(F, source) ==
    CASE source.type = "fragment" -> F = source.frag
      [] source.type = "build" -> F.kind = "query" /\ F.fragments = source.fragments
      [] source.type = "function" -> F.kind = "argument" /\ F.accessor = source.fn
      [] source.type = "value" -> F.kind = "value" /\ F.value = source.value

C7_TemplateAlternates ==
    HasBuilder =>
        LET n == Len(template.args)
        IN  /\ Len(template.strings) = n + 1
            /\ Len(Newest) = 2 * n + 1
            /\ \A j \in 0..n :
                  Newest[2 * j + 1] = [kind |-> "string", text |-> template.strings[j + 1]]
            /\ \A j \in 0..(n - 1) : Wraps(Newest[2 * j + 2], template.args[j + 1])
            /\ Newest[Len(Newest)].kind = "string"

\* a template with two expressions whose last segment is the empty string
C7_Witness ==
    /\ HasBuilder
    /\ Len(template.args) = 2
    /\ template.strings[3] = <<>>
    /\ template.strings[1] # <<>>
    /\ Len(Newest) = 5

(***************************************************************************)
(* C8: an embedded expression is wrapped by its kind: a fragment is         *)
(* embedded as that same fragment; a build method is finalized with no      *)
(* mapper and its sequence embedded; any other function becomes an          *)
(* argument fragment whose accessor is that function; every other value     *)
(* (null, objects and arrays included) becomes a bound-value fragment that  *)
(* takes exactly one placeholder and always yields that value.              *)
(***************************************************************************)
C8_WrappedByKind ==
    HasBuilder =>
        \A j \in 1..Len(template.args) :
            LET source == template.args[j]
                F == Newest[2 * j]
            IN  CASE source.type = "fragment" -> F = source.frag
                  [] source.type = "build" ->
                        /\ F.kind = "query"
                        /\ F.fragments = source.fragments
                        /\ \E b \in 1..(Len(builders) - 1) : F.fragments = builders[b]
                  [] source.type = "function" ->
                        F.kind = "argument" /\ F.accessor = source.fn
                  [] source.type = "value" ->
                        /\ F.kind = "value"
                        /\ \A o \in Offsets :
                              LET r == prepare(F, o)
                              IN  /\ r[1] = <<Ph(o)>>
                                  /\ Len(r[2]) = 1
                                  /\ \A obj \in ArgObjects :
                                        Apply(r[2][1], obj) = source.value

\* a template that embeds a build method and a null, an object or an array
C8_Witness ==
    /\ HasBuilder
    /\ Len(template.args) = 2
    /\ template.args[1].type = "build"
    /\ template.args[2].type = "value"
    /\ template.args[2].value \in {"null", "obj", "arr"}
    /\ Newest[2].kind = "query"
    /\ Newest[4].kind = "value"

(***************************************************************************)
(* C9: a(...) returns an argument fragment whose accessor indexes the       *)
(* argument value by the key when it is given exactly one key name (a       *)
(* string, or a template of one piece), and throws an invalid-usage error   *)
(* at once when it is given zero keys or more than one.                     *)
(* An empty template, a``, names no key and is among the inputs that throw. *)
(***************************************************************************)
Called == helper.status # "none"

IndexesBy(key) ==
    /\ helper.status = "ok"
    /\ helper.frag.kind = "argument"
    /\ \A obj \in ReadObjects : Apply(helper.frag.accessor, obj) = Get(obj, key)
    /\ helper.read # "unread" => helper.read = Get(helper.obj, key)

Throws == helper.status = "thrown" /\ helper.error = "TypeError" /\ helper.frag = NoFragment

EmptyTemplate == TemplateInput(<<"">>)

C9_ArgumentShorthand ==
    Called =>
        LET name == helper.input
        IN  CASE name.type = "string" -> IndexesBy(name.pieces[1])
              [] name.type = "template" ->
                    IF Len(name.pieces) = 1 /\ name # EmptyTemplate
                    THEN IndexesBy(name.pieces[1]) ELSE Throws
              [] name.type = "array" ->
                    IF Len(name.pieces) = 1 THEN IndexesBy(name.pieces[1]) ELSE Throws
              [] name.type = "other" -> Throws

(***************************************************************************)
(* C10: in the edition src/index.ts, staticPrepare over a list of children  *)
(* returns the concatenation of the children's texts together with the      *)
(* concatenation of the children's accessor lists, in order, and hands each *)
(* child the starting offset plus the number of accessors of the children   *)
(* before it.                                                               *)
(***************************************************************************)
RECURSIVE ChildTexts(_, _, _)
\* the children's texts, each prepared at o plus the accessors before it
ChildTexts(fs, o, seen) ==
    IF fs = <<>> THEN <<>>
    ELSE prepareIndex(Head(fs), o + seen)[1]
         \o ChildTexts(Tail(fs), o, seen + Len(prepareIndex(Head(fs), o + seen)[2]))

RECURSIVE ChildAccessors(_, _)
ChildAccessors(fs, o) ==
    IF fs = <<>> THEN <<>>
    ELSE LET own == prepareIndex(Head(fs), o)[2]
         IN  own \o ChildAccessors(Tail(fs), o + Len(own))

C10_IndexStaticPrepare ==
    HasBuilder =>
        \A o \in Offsets :
            LET r == staticPrepareIndex(Newest, o)
            IN  /\ r[2] = ChildAccessors(Newest, o)
                /\ r[1] = ChildTexts(Newest, o, 0)

RECURSIVE SameLeaves(_, _)
\* G has the shape of F, and the content of every leaf that is not an argument
SameLeaves(F, G) ==
    /\ G.kind = F.kind
    /\ CASE F.kind = "string" -> G.text = F.text
          [] F.kind = "literal" -> G.value = F.value
          [] F.kind = "identifier" -> G.name = F.name
          [] F.kind = "value" -> G.value = F.value
          [] F.kind = "argument" -> TRUE
          [] F.kind = "query" ->
                /\ Len(G.fragments) = Len(F.fragments)
                /\ \A j \in 1..Len(F.fragments) :
                      SameLeaves(F.fragments[j], G.fragments[j])

Remapped == {f \in 1..Len(built) : built[f].mapper.given}

C12_MapKeepsTextAndLeaves ==
    \A f \in Remapped :
        LET F == QueryFragment(built[f].fragments)
            G == built[f].frag
        IN  /\ builders[built[f].b] = built[f].fragments
            /\ SameLeaves(F, G)
            /\ \A o \in Offsets :
                  /\ prepare(G, o)[1] = prepare(F, o)[1]
                  /\ Len(prepare(G, o)[2]) = Len(prepare(F, o)[2])
                  /\ \A k \in 1..Len(Emitters(F)) :
                        Emitters(F)[k].kind = "value" =>
                            \A obj \in ArgObjects :
                                Apply(prepare(G, o)[2][k], obj) = Emitters(F)[k].value

\* a sequence holding a bound value and an accessor was remapped, and a later
\* template was built after it
C12_Witness ==
    /\ Remapped # {}
    /\ \E f \in Remapped :
          /\ built[f].b < Len(builders)
          /\ \E k, n \in 1..Len(Emitters(built[f].frag)) :
                /\ Emitters(built[f].frag)[k].kind = "value"
                /\ Emitters(built[f].frag)[n].kind = "argument"
                /\ Emitters(built[f].frag)[n].accessor.via # <<>>

(***************************************************************************)
(* C13: when one bound query is invoked several times with different        *)
(* argument values and the invocations overlap, the connection settling     *)
(* them in any order, each call of conn.query carries the values computed   *)
(* from its own invocation's argument only, and each invocation returns the *)
(* rows of its own connection call.                                         *)
(***************************************************************************)
C13_OverlappingInvocations ==
    \A c \in Made :
        LET accessors == queries[calls[c].q].accessors
        IN  /\ calls[c].sent # 0
            /\ connLog[calls[c].sent].values =
                  [k \in 1..Len(accessors) |-> Apply(accessors[k], calls[c].argument.obj)]
            /\ calls[c].pc = "awaiting" => calls[c].rows = <<>>
            /\ calls[c].pc = "returned" => calls[c].rows = calls[c].ret

\* the second invocation of a query started while the first awaited the connection
\* and has returned its own rows; the first is still awaiting
C13_Witness ==
    /\ Len(calls) >= 2
    /\ calls[1].q = calls[2].q
    /\ calls[1].argument # calls[2].argument
    /\ calls[1].pc = "awaiting"
    /\ calls[2].pc = "returned"
    /\ calls[2].rows = <<"r2", "r1">>
    /\ connLog[calls[1].sent].values # connLog[calls[2].sent].values

(***************************************************************************)
(* C14: each invocation of a bound query calls conn.query exactly once; if  *)
(* that call fails the invocation fails with the same error, the connection *)
(* is not called again, no rows are returned and validate is never run.     *)
(***************************************************************************)
Sent == {c \in Made : calls[c].sent # 0}

\* a failure of conn.query is the failure of the invocation, and all of it
ConnFailurePassedOn ==
    \A c \in Made :
        calls[c].error = "conn" =>
            /\ calls[c].pc = "failed"
            /\ calls[c].rows = <<>>
            /\ calls[c].checked = 0
            /\ calls[c].sent # 0

\* the configs logged are those of the invocations that reached conn.query, one each
OneConfigEach ==
    /\ Len(connLog) = Cardinality(Sent)
    /\ \A c, d \in Sent : calls[c].sent = calls[d].sent => c = d
    /\ \A c \in Sent : calls[c].sent \in 1..Len(connLog)

C14_ConnCalledOnce ==
    /\ \A c \in Made : calls[c].sent # 0
    /\ OneConfigEach
    /\ ConnFailurePassedOn

(***************************************************************************)
(* C14, amended: each invocation of a bound query whose accessors all       *)
(* return calls conn.query exactly once, and an invocation one of whose     *)
(* accessors throws never calls it; if the call fails the invocation fails  *)
(* with the same error, the connection is not called again, no rows are     *)
(* returned and validate is never run.                                      *)
(***************************************************************************)
C14_ConnCalledOnceUnlessThrown ==
    /\ \A c \in Made :
          calls[c].sent # 0 <=>
              Throwers(queries[calls[c].q].accessors,
                       IF calls[c].argument.given THEN calls[c].argument.obj
                       ELSE EmptyObject) = {}
    /\ OneConfigEach
    /\ ConnFailurePassedOn

\* conn.query has failed for an invocation of a query created with validate
C14_Witness ==
    /\ Len(calls) > 0
    /\ calls[1].error = "conn"
    /\ calls[1].pc = "failed"
    /\ queries[calls[1].q].options.validate
    /\ Len(connLog) = 1

(***************************************************************************)
(* C15: within one invocation of a bound query every accessor is evaluated  *)
(* exactly once, in placeholder order, before conn.query is called; if an   *)
(* accessor throws, the invocation fails with that error and conn.query is  *)
(* never called for that invocation.                                        *)
(***************************************************************************)
\* the accessors of call c that throw for its argument
ThrowersOf(c) ==
    {k \in 1..Len(queries[calls[c].q].accessors) :
        ApplyThrows(queries[calls[c].q].accessors[k],
                    IF calls[c].argument.given THEN calls[c].argument.obj
                    ELSE EmptyObject)}

\* each accessor at most once, by rising placeholder number, from the first on
InPlaceholderOrder(order) == \A k \in 1..Len(order) : order[k] = k

C15_AccessorsBeforeConn ==
    \A c \in Made :
        LET n == Len(Placeholders(queries[calls[c].q].query))
        IN  /\ InPlaceholderOrder(calls[c].evaluated)
            /\ Len(calls[c].evaluated) <= n
            /\ calls[c].sent # 0 =>
                  /\ Len(calls[c].evaluated) = n
                  /\ ThrowersOf(c) = {}
            /\ ThrowersOf(c) # {} =>
                  /\ calls[c].pc = "failed"
                  /\ calls[c].error = "accessor"
                  /\ calls[c].sent = 0
                  /\ calls[c].rows = <<>>
                  /\ calls[c].evaluated[Len(calls[c].evaluated)] \in ThrowersOf(c)
                  /\ Len(connLog) = Cardinality(Sent)

\* sql`QUERY ${3} ${args => args.userId.toString()} ${args => args.id}` invoked
\* with {id: 3}: the second accessor throws, the third is not called, conn.query
\* is not called; a later invocation with both keys reaches conn.query
C15_Witness ==
    /\ Len(calls) >= 2
    /\ calls[1].evaluated = <<1, 2>>
    /\ calls[1].error = "accessor"
    /\ calls[1].sent = 0
    /\ calls[2].evaluated = <<1, 2, 3>>
    /\ calls[2].sent = 1
    /\ Len(connLog) = 1

(***************************************************************************)
(* C16: invoking a bound query with no argument evaluates every accessor    *)
(* against an empty object: a bound-value placeholder still receives its    *)
(* fixed value and a placeholder made by the helper a(key) receives         *)
(* undefined instead of making the invocation fail, so conn.query is still  *)
(* called with as many values as the text has placeholders.                 *)
(***************************************************************************)
\* F is a bound value, or an argument fragment as a(key) makes it (remapped or not)
ValueOrShorthand(F) ==
    \/ F.kind = "value"
    \/ /\ F.kind = "argument"
       /\ \E key \in Keys :
             [F.accessor EXCEPT !.via = <<>>] = a(StringInput(key)).frag.accessor

C16_NoArgumentIsEmptyObject ==
    \A c \in Made :
        LET nodes == Emitters(QueryFragment(Newest))
        IN  (~calls[c].argument.given /\ \A k \in 1..Len(nodes) : ValueOrShorthand(nodes[k]))
            =>  /\ calls[c].sent # 0
                /\ calls[c].error # "accessor"
                /\ Len(connLog[calls[c].sent].values)
                      = Len(Placeholders(connLog[calls[c].sent].text))
                /\ Len(connLog[calls[c].sent].values) = Len(nodes)
                /\ \A k \in 1..Len(nodes) :
                      connLog[calls[c].sent].values[k] =
                          IF nodes[k].kind = "value" THEN nodes[k].value ELSE Undefined

\* sql`SET ${a("id")} WHERE ${idIs(args => ({ id: args.userId }))}` invoked with
\* no argument: conn.query gets two undefined values, and its rows are returned
C16_Witness ==
    /\ Len(calls) > 0
    /\ ~calls[1].argument.given
    /\ calls[1].pc = "returned"
    /\ Placeholders(connLog[1].text) = <<1, 2>>
    /\ connLog[1].values = <<Undefined, Undefined>>
    /\ Emitters(QueryFragment(Newest))[2].accessor.via # <<>>

====
